---- MODULE Spec2Model ----
(***************************************************************************)
(* queuectl: a job queue whose workers coordinate only through the `jobs`  *)
(* table of a shared store.  Every `await supabase...` of the source is    *)
(* one atomic store operation and therefore one step of the model; the     *)
(* local code between two store operations belongs to the step that        *)
(* follows it.  Time is counted in seconds.                                 *)
(*                                                                         *)
(* Columns not modelled: updated_at (written by every update, read by      *)
(* nothing).  The store is taken to have the `output` column that          *)
(* Worker.executeJob writes and queuectl.js reads.  The config read at the *)
(* top of executeJob's try block is left out: its result is never used.    *)
(* A worker is modelled from the moment its processLoop runs: start() has  *)
(* inserted its row in `workers` and set the heartbeat timer.  A store     *)
(* operation on `jobs` or `config` may fail (StoreError); a failed write   *)
(* changes nothing.  Writes to `workers`, whose outcome the source never   *)
(* looks at, succeed.                                                      *)
(***************************************************************************)
EXTENDS Integers, Sequences, FiniteSets, TLC

\* ------------------------------------------------------------------ bounds
Workers == {"w1", "w2"}
Clients == {"c1"}
JobIds == {"j1", "j2"}
\* shell commands by what running them does: exit 0, exit non-zero, either
Commands == {"ok", "fail", "flaky"}
\* jobData.max_retries as passed to enqueueJob: <<>> is "not supplied"
MaxRetriesInputs == {<<>>, <<0>>, <<1>>, <<2>>}
\* the clock advances by one of these amounts (seconds), MaxTicks times
TickSteps == {2, 301}
MaxTicks == 2
\* a job's command is run at most MaxRuns times
MaxRuns == 3

\* ------------------------------------------------------- program constants
\* 5 * 60 * 1000 ms, in seconds
LOCK_TIMEOUT == 300
DEFAULT_MAX_RETRIES == 3
DEFAULT_BACKOFF_BASE == 2

\* null of a timestamp column, of a text column, of a job reference
NullT == -1
Null == "null"
NoJob == "none"
\* a job JSON without "command", and the values of it that are falsy
Undefined == "undefined"
MissingCommands == {Undefined, ""}
ErrMsg == "Command failed"
Output == "stdout"

VARIABLES
  jobs,        \* the jobs table: job id -> row
  config,      \* the config table: key -> value (text)
  now,         \* wall clock, seconds
  ticks,       \* number of clock advances so far
  pc,          \* pc[w]: where worker w is in processLoop / acquireJobLock / executeJob
  wnow,        \* wnow[w]: `now` captured at the top of acquireJobLock
  cand,        \* cand[w]: id of the candidate row the last select returned
  cur,         \* cur[w]: id of this.currentJob
  mfAttempts,  \* mfAttempts[w]: job.attempts read by markJobFailed's getJob
  base,        \* base[w]: backoffBase read from config in the catch branch
  cpc,         \* cpc[c]: where client c is in retryDLQJob
  cjob,        \* cjob[c]: the job id client c read in retryDLQJob
  cres,        \* cres[c]: outcome of client c's last call
  isRunning,   \* isRunning[w]: this.isRunning of worker w
  spc,         \* spc[w]: where the call of stop() on worker w is
  wrec,        \* the workers table: worker id -> row
  jobsProcessed, \* jobsProcessed[w]: this.jobsProcessed
  hbTimer,     \* hbTimer[w]: the heartbeat interval timer of w is set
  listed,      \* listed[c]: ids of the rows client c's last getActiveWorkers returned
  cfgGot,      \* cfgGot[c]: what client c's last Config.get returned
  execFailed,  \* execFailed[w]: the command of w's executeJob call has failed
               \* or timed out, and the catch branch is running
  staleFound,  \* history: some stale-lock select has returned a candidate
  runs         \* history: runs[j] counts the executions of job j's command

vars == <<jobs, config, now, ticks, pc, wnow, cand, cur, mfAttempts, base,
          cpc, cjob, cres, isRunning, spc, wrec, jobsProcessed, hbTimer,
          listed, cfgGot, execFailed, staleFound, runs>>

workerVars == <<pc, wnow, cand, cur, mfAttempts, base>>
clientVars == <<cpc, cjob, cres>>
clockVars == <<now, ticks>>
histVars == <<execFailed, staleFound, runs>>
lifeVars == <<isRunning, spc, wrec, jobsProcessed, hbTimer>>
queryVars == <<listed, cfgGot>>

\* ----------------------------------------------------------------- helpers
RECURSIVE Pow(_, _)
Pow(b, e) == IF e = 0 THEN 1 ELSE b * Pow(b, e - 1)

\* parseInt on the config values the model uses
ParseIntDefault(s) == DEFAULT_BACKOFF_BASE
ParseInt(s) == CASE s = "2" -> 2
                 [] s = "3" -> 3
                 [] s = "5" -> 5

\* jobData.max_retries || 3 : undefined and 0 are falsy
MaxRetriesOrDefault(mr) ==
  IF mr = <<>> \/ mr[1] = 0 THEN DEFAULT_MAX_RETRIES ELSE mr[1]

\* the row enqueueJob inserts (columns it omits take the table's defaults)
NewJob(cmd, mr, t) ==
  [ state |-> "pending", attempts |-> 0, max_retries |-> MaxRetriesOrDefault(mr),
    command |-> cmd, created_at |-> t, next_retry_at |-> NullT,
    error_message |-> Null, completed_at |-> NullT,
    locked_by |-> Null, locked_at |-> NullT, output |-> Null ]

\* the lock update of acquireJobLock (same fields in all three branches)
LockRowNoTime(row, w, t) ==
  [row EXCEPT !.locked_by = w, !.state = "processing"]
LockRow(row, w, t) ==
  [row EXCEPT !.locked_by = w, !.locked_at = t, !.state = "processing"]

Init ==
  /\ jobs = << >>
  /\ config = [k \in {"max_retries", "backoff_base"} |->
                 IF k = "max_retries" THEN "3" ELSE "2"]
  /\ now = 0
  /\ ticks = 0
  /\ pc = [w \in Workers |-> "poll"]
  /\ wnow = [w \in Workers |-> 0]
  /\ cand = [w \in Workers |-> NoJob]
  /\ cur = [w \in Workers |-> NoJob]
  /\ mfAttempts = [w \in Workers |-> 0]
  /\ base = [w \in Workers |-> DEFAULT_BACKOFF_BASE]
  /\ cpc = [c \in Clients |-> "idle"]
  /\ cjob = [c \in Clients |-> NoJob]
  /\ cres = [c \in Clients |-> "none"]
  /\ isRunning = [w \in Workers |-> TRUE]
  /\ spc = [w \in Workers |-> "none"]
  /\ wrec = [w \in Workers |->
               [status |-> "active", jobs_processed |-> 0, last_heartbeat |-> 0]]
  /\ jobsProcessed = [w \in Workers |-> 0]
  /\ hbTimer = [w \in Workers |-> TRUE]
  /\ listed = [c \in Clients |-> {}]
  /\ cfgGot = [c \in Clients |-> Null]
  /\ execFailed = [w \in Workers |-> FALSE]
  /\ staleFound = FALSE
  /\ runs = [j \in JobIds |-> 0]

\* ------------------------------------------------------------------- clock
Tick(d) ==
  /\ ticks < MaxTicks
  /\ now' = now + d
  /\ ticks' = ticks + 1
  /\ UNCHANGED <<queryVars, jobs, config, workerVars, clientVars, histVars, lifeVars>>

\* ---------------------------------------------------------- JobQueue: API
\* enqueueJob: one insert; the primary key rejects a duplicate id, and
\* `command text NOT NULL` a row without a command
EnqueueJob(c, id, cmd, mr) ==
  /\ cpc[c] = "idle"
  /\ IF id \in DOMAIN jobs \/ cmd = Undefined
       THEN /\ cres' = [cres EXCEPT ![c] = "error"]
            /\ UNCHANGED jobs
       ELSE /\ jobs' = jobs @@ (id :> NewJob(cmd, mr, now))
            /\ cres' = [cres EXCEPT ![c] = "ok"]
  /\ UNCHANGED <<queryVars, config, clockVars, workerVars, cpc, cjob, histVars, lifeVars>>

\* `!jobData.command` in the enqueue command of the CLI
CommandMissingNever(cmd) == FALSE
CommandMissing(cmd) == cmd \in MissingCommands

\* queuectl enqueue '<json>': a job without a command is refused with
\* exit code 1 before enqueueJob is called
CliEnqueue(c, id, cmd, mr) ==
  IF CommandMissing(cmd)
    THEN /\ cpc[c] = "idle"
         /\ cres' = [cres EXCEPT ![c] = "invalid"]
         /\ UNCHANGED <<queryVars, jobs, config, clockVars, workerVars, cpc, cjob, histVars,
                        lifeVars>>
    ELSE EnqueueJob(c, id, cmd, mr)

\* releaseJobLock: one update filtered by id only
ReleasedRowToPending(row) ==
  [row EXCEPT !.locked_by = Null, !.locked_at = NullT, !.state = "pending"]
ReleasedRow(row) ==
  [row EXCEPT !.locked_by = Null, !.locked_at = NullT]

ReleaseJobLock(c, id) ==
  /\ cpc[c] = "idle"
  /\ jobs' = [j \in DOMAIN jobs |-> IF j = id THEN ReleasedRow(jobs[j]) ELSE jobs[j]]
  /\ cres' = [cres EXCEPT ![c] = "ok"]
  /\ UNCHANGED <<queryVars, config, clockVars, workerVars, cpc, cjob, histVars, lifeVars>>

\* the checks of retryDLQJob on what getJob returned: present, and dead
InDLQAnyState(id) == id \in DOMAIN jobs
InDLQ(id) == id \in DOMAIN jobs /\ jobs[id].state = "dead"

\* retryDLQJob, first store operation: getJob and the two checks
RetryDLQGet(c, id) ==
  /\ cpc[c] = "idle"
  /\ IF InDLQ(id)
       THEN /\ cpc' = [cpc EXCEPT ![c] = "dlq_update"]
            /\ cjob' = [cjob EXCEPT ![c] = id]
            /\ cres' = [cres EXCEPT ![c] = "none"]
       ELSE /\ cres' = [cres EXCEPT ![c] = "error"]
            /\ UNCHANGED <<cpc, cjob>>
  /\ UNCHANGED <<queryVars, jobs, config, clockVars, workerVars, histVars, lifeVars>>

\* the row retryDLQJob writes
DlqRetryRowKeepsAttempts(row) ==
  [row EXCEPT !.state = "pending", !.error_message = Null,
              !.next_retry_at = NullT, !.locked_by = Null, !.locked_at = NullT]
DlqRetryRow(row) ==
  [row EXCEPT !.state = "pending", !.attempts = 0, !.error_message = Null,
              !.next_retry_at = NullT, !.locked_by = Null, !.locked_at = NullT]

\* retryDLQJob, second store operation: updateJobState(jobId, 'pending', ...)
RetryDLQUpdate(c) ==
  /\ cpc[c] = "dlq_update"
  /\ jobs' = [jobs EXCEPT ![cjob[c]] = DlqRetryRow(@)]
  /\ cpc' = [cpc EXCEPT ![c] = "idle"]
  /\ cjob' = [cjob EXCEPT ![c] = NoJob]
  /\ cres' = [cres EXCEPT ![c] = "ok"]
  /\ UNCHANGED <<queryVars, config, clockVars, workerVars, histVars, lifeVars>>

\* Config.set: upsert of String(value); the values passed are strings
UpsertIfAbsent(cfg, k, v) ==
  [x \in DOMAIN cfg \cup {k} |-> IF x \in DOMAIN cfg THEN cfg[x] ELSE v]
Upsert(cfg, k, v) ==
  [x \in DOMAIN cfg \cup {k} |-> IF x = k THEN v ELSE cfg[x]]

ConfigSet(c, k, v) ==
  /\ cpc[c] = "idle"
  /\ config' = Upsert(config, k, v)
  /\ cres' = [cres EXCEPT ![c] = "ok"]
  /\ UNCHANGED <<queryVars, jobs, clockVars, workerVars, cpc, cjob, histVars, lifeVars>>

\* Config.get: the value stored under the key, null when there is no row
ConfigGet(c, k) ==
  /\ cpc[c] = "idle"
  /\ cfgGot' = [cfgGot EXCEPT ![c] = IF k \in DOMAIN config THEN config[k] ELSE Null]
  /\ cres' = [cres EXCEPT ![c] = "ok"]
  /\ UNCHANGED <<jobs, config, clockVars, workerVars, cpc, cjob, histVars, lifeVars,
                 listed>>

\* ------------------------------------------ WorkerManager.getActiveWorkers
\* 5 * 60 * 1000 ms, in seconds
HEARTBEAT_WINDOW == 300

\* the rows the select matches at time t
ActiveWorkersAnyStatus(t) ==
  {w \in DOMAIN wrec : wrec[w].last_heartbeat >= t - HEARTBEAT_WINDOW}
ActiveWorkers(t) ==
  {w \in DOMAIN wrec : /\ wrec[w].status \in {"active", "stopping"}
                       /\ wrec[w].last_heartbeat >= t - HEARTBEAT_WINDOW}

GetActiveWorkers(c) ==
  /\ cpc[c] = "idle"
  /\ listed' = [listed EXCEPT ![c] = ActiveWorkers(now)]
  /\ cres' = [cres EXCEPT ![c] = "ok"]
  /\ UNCHANGED <<jobs, config, clockVars, workerVars, cpc, cjob, histVars, lifeVars,
                 cfgGot>>

\* ------------------------------------------- JobQueue.acquireJobLock(w)
\* rows the pending select matches, and the ones `order created_at asc limit 1` may return
PendingRows == {j \in DOMAIN jobs : jobs[j].state = "pending" /\ jobs[j].locked_by = Null}
PendingFirstAny == PendingRows
PendingFirst == {j \in PendingRows :
                   \A k \in PendingRows : jobs[j].created_at <= jobs[k].created_at}

\* rows the retry select matches at call time t, and the ones
\* `order next_retry_at asc limit 1` may return
RetryRowsAnyTime(t) == {j \in DOMAIN jobs :
                          /\ jobs[j].state = "failed"
                          /\ jobs[j].next_retry_at # NullT
                          /\ jobs[j].locked_by = Null}
RetryRows(t) == {j \in DOMAIN jobs :
                   /\ jobs[j].state = "failed"
                   /\ jobs[j].next_retry_at # NullT
                   /\ jobs[j].next_retry_at <= t
                   /\ jobs[j].locked_by = Null}
RetryFirst(t) == {j \in RetryRows(t) :
                    \A k \in RetryRows(t) : jobs[j].next_retry_at <= jobs[k].next_retry_at}

\* rows the stale-lock select matches at call time t; `limit 1` without an
\* order returns any of them
StaleRowsNever(t) == {}
StaleRows(t) == {j \in DOMAIN jobs :
                   /\ jobs[j].state = "processing"
                   /\ jobs[j].locked_by # Null
                   /\ jobs[j].locked_at # NullT
                   /\ jobs[j].locked_at < t - LOCK_TIMEOUT}

\* processLoop finds isRunning true and calls acquireJobLock: `now` is
\* captured, the pending select runs
SelectPending(w) ==
  /\ pc[w] = "poll"
  /\ isRunning[w]
  /\ wnow' = [wnow EXCEPT ![w] = now]
  /\ IF PendingRows = {}
       THEN /\ pc' = [pc EXCEPT ![w] = "select_retry"]
            /\ UNCHANGED cand
       ELSE /\ \E j \in PendingFirst : cand' = [cand EXCEPT ![w] = j]
            /\ pc' = [pc EXCEPT ![w] = "lock_pending"]
  /\ UNCHANGED <<queryVars, jobs, config, clockVars, cur, mfAttempts, base, clientVars, histVars, lifeVars>>

\* the filter of the pending-class lock update besides the id: locked_by is null
PendingLockGuardOff(row) == TRUE
PendingLockGuard(row) == row.locked_by = Null

\* update ... where id = job.id and locked_by is null
LockPending(w) ==
  /\ pc[w] = "lock_pending"
  /\ IF PendingLockGuard(jobs[cand[w]])
       THEN /\ jobs' = [jobs EXCEPT ![cand[w]] = LockRow(@, w, wnow[w])]
            /\ cur' = [cur EXCEPT ![w] = cand[w]]
            /\ pc' = [pc EXCEPT ![w] = "execute"]
            /\ wnow' = [wnow EXCEPT ![w] = 0]
       ELSE /\ pc' = [pc EXCEPT ![w] = "select_retry"]
            /\ UNCHANGED <<jobs, cur, wnow>>
  /\ cand' = [cand EXCEPT ![w] = NoJob]
  /\ UNCHANGED <<queryVars, config, clockVars, mfAttempts, base, clientVars, histVars, lifeVars>>

SelectRetry(w) ==
  /\ pc[w] = "select_retry"
  /\ IF RetryRows(wnow[w]) = {}
       THEN /\ pc' = [pc EXCEPT ![w] = "select_stale"]
            /\ UNCHANGED cand
       ELSE /\ \E j \in RetryFirst(wnow[w]) : cand' = [cand EXCEPT ![w] = j]
            /\ pc' = [pc EXCEPT ![w] = "lock_retry"]
  /\ UNCHANGED <<queryVars, jobs, config, clockVars, wnow, cur, mfAttempts, base, clientVars, histVars, lifeVars>>

\* the filter of the retry-class lock update besides the id: locked_by is null
RetryLockGuardOff(row) == TRUE
RetryLockGuard(row) == row.locked_by = Null

\* update ... where id = job.id and locked_by is null
LockRetry(w) ==
  /\ pc[w] = "lock_retry"
  /\ IF RetryLockGuard(jobs[cand[w]])
       THEN /\ jobs' = [jobs EXCEPT ![cand[w]] = LockRow(@, w, wnow[w])]
            /\ cur' = [cur EXCEPT ![w] = cand[w]]
            /\ pc' = [pc EXCEPT ![w] = "execute"]
            /\ wnow' = [wnow EXCEPT ![w] = 0]
       ELSE /\ pc' = [pc EXCEPT ![w] = "select_stale"]
            /\ UNCHANGED <<jobs, cur, wnow>>
  /\ cand' = [cand EXCEPT ![w] = NoJob]
  /\ UNCHANGED <<queryVars, config, clockVars, mfAttempts, base, clientVars, histVars, lifeVars>>

\* no stale row: acquireJobLock returns null and processLoop sleeps
SelectStale(w) ==
  /\ pc[w] = "select_stale"
  /\ IF StaleRows(wnow[w]) = {}
       THEN /\ pc' = [pc EXCEPT ![w] = "poll"]
            /\ wnow' = [wnow EXCEPT ![w] = 0]
            /\ UNCHANGED <<cand, staleFound>>
       ELSE /\ \E j \in StaleRows(wnow[w]) : cand' = [cand EXCEPT ![w] = j]
            /\ pc' = [pc EXCEPT ![w] = "lock_stale"]
            /\ staleFound' = TRUE
            /\ UNCHANGED wnow
  /\ UNCHANGED <<queryVars, jobs, config, clockVars, cur, mfAttempts, base, clientVars,
                 execFailed, runs, lifeVars>>

\* update ... where id = job.id (no other filter)
LockStale(w) ==
  /\ pc[w] = "lock_stale"
  /\ jobs' = [jobs EXCEPT ![cand[w]] = LockRow(@, w, wnow[w])]
  /\ cur' = [cur EXCEPT ![w] = cand[w]]
  /\ pc' = [pc EXCEPT ![w] = "execute"]
  /\ cand' = [cand EXCEPT ![w] = NoJob]
  /\ wnow' = [wnow EXCEPT ![w] = 0]
  /\ UNCHANGED <<queryVars, config, clockVars, mfAttempts, base, clientVars, histVars, lifeVars>>

\* ----------------------------------------------------- Worker.executeJob
\* execPromise(job.command) resolves (ok = TRUE) or rejects
ExecuteJob(w, ok) ==
  /\ pc[w] = "execute"
  /\ \/ jobs[cur[w]].command = "flaky"
     \/ jobs[cur[w]].command = (IF ok THEN "ok" ELSE "fail")
  /\ runs[cur[w]] < MaxRuns
  /\ runs' = [runs EXCEPT ![cur[w]] = @ + 1]
  /\ execFailed' = [execFailed EXCEPT ![w] = ~ok]
  /\ pc' = [pc EXCEPT ![w] = IF ok THEN "mark_completed" ELSE "read_backoff"]
  /\ UNCHANGED <<queryVars, jobs, config, clockVars, wnow, cand, cur, mfAttempts, base,
                 clientVars, staleFound, lifeVars>>

\* the row markJobCompleted writes at time t
CompletedRowKeepsError(row, t) ==
  [row EXCEPT !.state = "completed", !.completed_at = t,
              !.locked_by = Null, !.locked_at = NullT]
CompletedRow(row, t) ==
  [row EXCEPT !.state = "completed", !.completed_at = t,
              !.locked_by = Null, !.locked_at = NullT, !.error_message = Null]

\* markJobCompleted(job.id): updateJobState filtered by id only
MarkJobCompleted(w) ==
  /\ pc[w] = "mark_completed"
  /\ jobs' = [jobs EXCEPT ![cur[w]] = CompletedRow(@, now)]
  /\ pc' = [pc EXCEPT ![w] = "update_output"]
  /\ UNCHANGED <<queryVars, config, clockVars, wnow, cand, cur, mfAttempts, base,
                 clientVars, histVars, lifeVars>>

\* updateJobState(job.id, 'completed', { output }); jobsProcessed++,
\* executeJob returns and processLoop clears currentJob
UpdateOutput(w) ==
  /\ pc[w] = "update_output"
  /\ jobs' = [jobs EXCEPT ![cur[w]] = [@ EXCEPT !.state = "completed", !.output = Output]]
  /\ pc' = [pc EXCEPT ![w] = "poll"]
  /\ cur' = [cur EXCEPT ![w] = NoJob]
  /\ jobsProcessed' = [jobsProcessed EXCEPT ![w] = @ + 1]
  /\ UNCHANGED <<queryVars, config, clockVars, wnow, cand, mfAttempts, base, clientVars, histVars,
                 isRunning, spc, wrec, hbTimer>>

\* catch branch: backoff_base is read from config
ReadBackoff(w) ==
  /\ pc[w] = "read_backoff"
  /\ base' = [base EXCEPT ![w] = IF "backoff_base" \in DOMAIN config
                                   THEN ParseInt(config["backoff_base"])
                                   ELSE DEFAULT_BACKOFF_BASE]
  /\ pc' = [pc EXCEPT ![w] = "failed_get"]
  /\ UNCHANGED <<queryVars, jobs, config, clockVars, wnow, cand, cur, mfAttempts,
                 clientVars, histVars, lifeVars>>

\* markJobFailed, first store operation: getJob(jobId)
MarkJobFailedGet(w) ==
  /\ pc[w] = "failed_get"
  /\ mfAttempts' = [mfAttempts EXCEPT ![w] = jobs[cur[w]].attempts]
  /\ pc' = [pc EXCEPT ![w] = "failed_update"]
  /\ UNCHANGED <<queryVars, jobs, config, clockVars, wnow, cand, cur, base, clientVars, histVars, lifeVars>>

\* the row markJobFailed writes from the attempts it read, at time t
FailedRowPreIncrement(row, attempts, b, t) ==
  LET newAttempts == attempts + 1 IN
  IF newAttempts >= row.max_retries
    THEN [row EXCEPT !.state = "dead", !.attempts = newAttempts,
                     !.error_message = ErrMsg, !.locked_by = Null,
                     !.locked_at = NullT, !.next_retry_at = NullT]
    ELSE [row EXCEPT !.state = "failed", !.attempts = newAttempts,
                     !.error_message = ErrMsg,
                     !.next_retry_at = t + Pow(b, attempts),
                     !.locked_by = Null, !.locked_at = NullT]
FailedRowOneMore(row, attempts, b, t) ==
  LET newAttempts == attempts + 1 IN
  IF newAttempts > row.max_retries
    THEN [row EXCEPT !.state = "dead", !.attempts = newAttempts,
                     !.error_message = ErrMsg, !.locked_by = Null,
                     !.locked_at = NullT, !.next_retry_at = NullT]
    ELSE [row EXCEPT !.state = "failed", !.attempts = newAttempts,
                     !.error_message = ErrMsg,
                     !.next_retry_at = t + Pow(b, newAttempts),
                     !.locked_by = Null, !.locked_at = NullT]
FailedRow(row, attempts, b, t) ==
  LET newAttempts == attempts + 1 IN
  IF newAttempts >= row.max_retries
    THEN [row EXCEPT !.state = "dead", !.attempts = newAttempts,
                     !.error_message = ErrMsg, !.locked_by = Null,
                     !.locked_at = NullT, !.next_retry_at = NullT]
    ELSE [row EXCEPT !.state = "failed", !.attempts = newAttempts,
                     !.error_message = ErrMsg,
                     !.next_retry_at = t + Pow(b, newAttempts),
                     !.locked_by = Null, !.locked_at = NullT]

\* markJobFailed, second store operation: updateJobState filtered by id only;
\* executeJob returns and processLoop clears currentJob
MarkJobFailedUpdate(w) ==
  /\ pc[w] = "failed_update"
  /\ jobs' = [jobs EXCEPT ![cur[w]] = FailedRow(@, mfAttempts[w], base[w], now)]
  /\ pc' = [pc EXCEPT ![w] = "poll"]
  /\ cur' = [cur EXCEPT ![w] = NoJob]
  /\ mfAttempts' = [mfAttempts EXCEPT ![w] = 0]
  /\ base' = [base EXCEPT ![w] = DEFAULT_BACKOFF_BASE]
  /\ execFailed' = [execFailed EXCEPT ![w] = FALSE]
  /\ UNCHANGED <<queryVars, config, clockVars, wnow, cand, clientVars, staleFound, runs,
                 lifeVars>>

\* ------------------------------------------------ store errors in the loop
\* where processLoop continues after its catch block (log, sleep, loop test)
AfterThrowExit == "stopped"
AfterThrow == "poll"

\* an error propagates to processLoop's catch: the locals of the call are
\* gone, this.currentJob keeps its value
Thrown(w) ==
  /\ pc' = [pc EXCEPT ![w] = AfterThrow]
  /\ wnow' = [wnow EXCEPT ![w] = 0]
  /\ cand' = [cand EXCEPT ![w] = NoJob]
  /\ mfAttempts' = [mfAttempts EXCEPT ![w] = 0]
  /\ base' = [base EXCEPT ![w] = DEFAULT_BACKOFF_BASE]
  /\ execFailed' = [execFailed EXCEPT ![w] = FALSE]
  /\ UNCHANGED <<queryVars, jobs, config, clockVars, cur, clientVars, staleFound, runs,
                 lifeVars>>

\* one of the three selects of acquireJobLock returns an error: it throws
SelectErrorSwallowed(w) ==
  /\ \/ pc[w] = "poll" /\ isRunning[w]
     \/ pc[w] \in {"select_retry", "select_stale"}
  /\ pc' = [pc EXCEPT ![w] = CASE pc[w] = "poll" -> "select_retry"
                                [] pc[w] = "select_retry" -> "select_stale"
                                [] pc[w] = "select_stale" -> "poll"]
  /\ wnow' = [wnow EXCEPT ![w] = CASE pc[w] = "poll" -> now
                                    [] pc[w] = "select_retry" -> @
                                    [] pc[w] = "select_stale" -> 0]
  /\ UNCHANGED <<queryVars, jobs, config, clockVars, cand, cur, mfAttempts, base, clientVars,
                 histVars, lifeVars>>
SelectError(w) ==
  /\ \/ pc[w] = "poll" /\ isRunning[w]
     \/ pc[w] \in {"select_retry", "select_stale"}
  /\ Thrown(w)

\* a lock update returns an error: acquireJobLock goes on to the next class,
\* and returns null after the last
LockError(w) ==
  /\ pc[w] \in {"lock_pending", "lock_retry", "lock_stale"}
  /\ pc' = [pc EXCEPT ![w] = CASE pc[w] = "lock_pending" -> "select_retry"
                                [] pc[w] = "lock_retry" -> "select_stale"
                                [] pc[w] = "lock_stale" -> "poll"]
  /\ cand' = [cand EXCEPT ![w] = NoJob]
  /\ wnow' = [wnow EXCEPT ![w] = IF pc[w] = "lock_stale" THEN 0 ELSE @]
  /\ UNCHANGED <<queryVars, jobs, config, clockVars, cur, mfAttempts, base, clientVars,
                 histVars, lifeVars>>

\* markJobCompleted or the output update throws inside executeJob's try
\* block: the catch branch runs
CompletionError(w) ==
  /\ pc[w] \in {"mark_completed", "update_output"}
  /\ pc' = [pc EXCEPT ![w] = "read_backoff"]
  /\ UNCHANGED <<queryVars, jobs, config, clockVars, wnow, cand, cur, mfAttempts, base,
                 clientVars, histVars, lifeVars>>

\* the config read of the catch branch fails: configData is null
ConfigReadError(w) ==
  /\ pc[w] = "read_backoff"
  /\ base' = [base EXCEPT ![w] = DEFAULT_BACKOFF_BASE]
  /\ pc' = [pc EXCEPT ![w] = "failed_get"]
  /\ UNCHANGED <<queryVars, jobs, config, clockVars, wnow, cand, cur, mfAttempts,
                 clientVars, histVars, lifeVars>>

\* getJob or updateJobState throws inside markJobFailed: executeJob throws,
\* and processLoop's `this.currentJob = null` is skipped
MarkJobFailedError(w) ==
  /\ pc[w] \in {"failed_get", "failed_update"}
  /\ Thrown(w)

StoreError(w) ==
  \/ SelectError(w) \/ LockError(w)
  \/ CompletionError(w) \/ ConfigReadError(w)
  \/ MarkJobFailedError(w)

\* ------------------------------------------- Worker: heartbeat, stop, cleanup
\* the interval callback set by startHeartbeat
Heartbeat(w) ==
  /\ hbTimer[w]
  /\ wrec' = [wrec EXCEPT ![w].last_heartbeat = now,
                          ![w].jobs_processed = jobsProcessed[w]]
  /\ wrec' # wrec
  /\ UNCHANGED <<queryVars, jobs, config, clockVars, workerVars, clientVars, histVars,
                 isRunning, spc, jobsProcessed, hbTimer>>

\* stop() is called: isRunning = false, and the status update is sent
Stop(w) ==
  /\ spc[w] = "none"
  /\ isRunning' = [isRunning EXCEPT ![w] = FALSE]
  /\ spc' = [spc EXCEPT ![w] = "write_stopping"]
  /\ UNCHANGED <<queryVars, jobs, config, clockVars, workerVars, clientVars, histVars,
                 wrec, jobsProcessed, hbTimer>>

\* update workers set status = 'stopping' where id = workerId
StopWrite(w) ==
  /\ spc[w] = "write_stopping"
  /\ wrec' = [wrec EXCEPT ![w].status = "stopping"]
  /\ spc' = [spc EXCEPT ![w] = "wait"]
  /\ UNCHANGED <<queryVars, jobs, config, clockVars, workerVars, clientVars, histVars,
                 isRunning, jobsProcessed, hbTimer>>

\* stop() finds this.currentJob null, at once or after some sleeps of
\* 100 ms, and returns
StopReturn(w) ==
  /\ spc[w] = "wait"
  /\ cur[w] = NoJob
  /\ spc' = [spc EXCEPT ![w] = "returned"]
  /\ UNCHANGED <<queryVars, jobs, config, clockVars, workerVars, clientVars, histVars,
                 isRunning, wrec, jobsProcessed, hbTimer>>

\* processLoop finds isRunning false and calls cleanup(): the timer is
\* cleared, status = 'stopped' and jobs_processed are written
Cleanup(w) ==
  /\ pc[w] = "poll"
  /\ ~isRunning[w]
  /\ hbTimer' = [hbTimer EXCEPT ![w] = FALSE]
  /\ wrec' = [wrec EXCEPT ![w].status = "stopped",
                          ![w].jobs_processed = jobsProcessed[w]]
  /\ pc' = [pc EXCEPT ![w] = "stopped"]
  /\ UNCHANGED <<queryVars, jobs, config, clockVars, wnow, cand, cur, mfAttempts, base,
                 clientVars, histVars, isRunning, spc, jobsProcessed>>

StopStep(w) == Stop(w) \/ StopWrite(w) \/ StopReturn(w) \/ Cleanup(w)

\* the process of worker w dies wherever it is; its timers die with it
Crash(w) ==
  /\ pc[w] \notin {"crashed", "stopped"}
  /\ pc' = [pc EXCEPT ![w] = "crashed"]
  /\ hbTimer' = [hbTimer EXCEPT ![w] = FALSE]
  /\ UNCHANGED <<queryVars, jobs, config, clockVars, wnow, cand, cur, mfAttempts, base,
                 clientVars, histVars, isRunning, spc, wrec, jobsProcessed>>

\* ------------------------------------------------------------------ system
ConfigValues == {"2", "3"}

\* the steps of a worker other than the stale-lock update
LoneWorkerStep(w) ==
  \/ SelectPending(w) \/ LockPending(w)
  \/ SelectRetry(w) \/ LockRetry(w)
  \/ SelectStale(w)
  \/ \E ok \in BOOLEAN : ExecuteJob(w, ok)
  \/ MarkJobCompleted(w) \/ UpdateOutput(w)
  \/ ReadBackoff(w) \/ MarkJobFailedGet(w) \/ MarkJobFailedUpdate(w)

WorkerStep(w) == LoneWorkerStep(w) \/ LockStale(w)

\* a client calling the queue API with job ids J, commands C, max_retries M
ClientStep(c, J, C, M) ==
  \/ \E id \in J, cmd \in C, mr \in M : EnqueueJob(c, id, cmd, mr)
  \/ \E id \in J : ReleaseJobLock(c, id)
  \/ \E id \in J : RetryDLQGet(c, id)
  \/ RetryDLQUpdate(c)

\* Spec: every worker and a client, contending for one job
RaceJobs == {"j1"}
RaceCommands == {"flaky"}

Next ==
  \/ \E w \in Workers : WorkerStep(w)
  \/ \E c \in Clients : ClientStep(c, RaceJobs, RaceCommands, MaxRetriesInputs)
  \/ \E d \in TickSteps : Tick(d)

Spec == Init /\ [][Next]_vars

\* SpecLease: the workers alone (acquireJobLock, executeJob, markJobCompleted,
\* markJobFailed) over jobs that are enqueued while they run
NextLease ==
  \/ \E w \in Workers : WorkerStep(w)
  \/ \E c \in Clients, id \in RaceJobs, cmd \in RaceCommands, mr \in MaxRetriesInputs :
       EnqueueJob(c, id, cmd, mr)
  \/ \E d \in TickSteps : Tick(d)

SpecLease == Init /\ [][NextLease]_vars

\* SpecSolo: one worker and a client using the whole queue API on two jobs;
\* the clock moves in steps of SoloTicks.  A worker that runs alone and does
\* not crash polls only when it holds no lease, so its stale-lock select
\* finds no row (NoStaleCandidate) and the stale-lock update is left out of
\* the one-worker specifications.
SoloWorker == "w1"
SoloTicks == {301}

NoStaleCandidate == \A w \in Workers : pc[w] # "lock_stale"

NextSolo ==
  \/ LoneWorkerStep(SoloWorker)
  \/ \E c \in Clients : ClientStep(c, JobIds, RaceCommands, MaxRetriesInputs)
  \/ \E d \in SoloTicks : Tick(d)

SpecSolo == Init /\ [][NextSolo]_vars

\* SpecRetry: one worker that is left alone with the job it is given
\* (through enqueueJob or the CLI), under live changes of backoff_base
NextRetry ==
  \/ LoneWorkerStep(SoloWorker)
  \/ \E c \in Clients, id \in RaceJobs, cmd \in Commands, mr \in MaxRetriesInputs :
       EnqueueJob(c, id, cmd, mr)
  \/ \E c \in Clients, id \in RaceJobs, cmd \in Commands \cup MissingCommands,
          mr \in MaxRetriesInputs : CliEnqueue(c, id, cmd, mr)
  \/ \E c \in Clients, v \in ConfigValues : ConfigSet(c, "backoff_base", v)
  \/ \E d \in TickSteps : Tick(d)

SpecRetry == Init /\ [][NextRetry]_vars

\* SpecContend: SpecLease in which the selects and lock updates of
\* acquireJobLock may fail
NextContend ==
  \/ NextLease
  \/ \E w \in Workers : SelectError(w) \/ LockError(w)

SpecContend == Init /\ [][NextContend]_vars

\* SpecQuiet: every worker, over two jobs, each call of acquireJobLock
\* running from its first select to its return with no other step in between
QuietMaxRetries == {<<2>>}

InAcquire(w) ==
  pc[w] \in {"lock_pending", "select_retry", "lock_retry", "select_stale", "lock_stale"}

NextQuiet ==
  \/ \E w \in Workers :
       /\ \A v \in Workers \ {w} : ~InAcquire(v)
       /\ WorkerStep(w)
  \/ /\ \A v \in Workers : ~InAcquire(v)
     /\ \/ \E c \in Clients, id \in JobIds, cmd \in RaceCommands, mr \in QuietMaxRetries :
             EnqueueJob(c, id, cmd, mr)
        \/ \E d \in SoloTicks : Tick(d)

SpecQuiet == Init /\ [][NextQuiet]_vars

\* SpecStale: one worker whose markJobFailed may fail, which leaves the job
\* processing under the worker's own lease, over two jobs whose command may fail
StaleCommands == {"fail", "flaky"}

NextStale ==
  \/ WorkerStep(SoloWorker)
  \/ MarkJobFailedError(SoloWorker)
  \/ \E c \in Clients, id \in JobIds, cmd \in StaleCommands, mr \in QuietMaxRetries :
       EnqueueJob(c, id, cmd, mr)
  \/ \E d \in TickSteps : Tick(d)

SpecStale == Init /\ [][NextStale]_vars

\* SpecConfig: one worker, jobs enqueued without max_retries, and a client
\* that sets and reads configuration keys, one of them absent at the start.
OtherKey == "other_key"
ConfigKeys == {"max_retries", "backoff_base", OtherKey}
ConfigMaxRetries == {<<>>}

NextConfig ==
  \/ LoneWorkerStep(SoloWorker)
  \/ \E c \in Clients, id \in RaceJobs, cmd \in Commands, mr \in ConfigMaxRetries :
       EnqueueJob(c, id, cmd, mr)
  \/ \E c \in Clients, k \in ConfigKeys, v \in ConfigValues : ConfigSet(c, k, v)
  \/ \E c \in Clients, k \in ConfigKeys : ConfigGet(c, k)
  \/ \E d \in TickSteps : Tick(d)

SpecConfig == Init /\ [][NextConfig]_vars

\* SpecFleet: the worker records as heartbeats, stops and crashes leave
\* them, and a client that lists the active workers.
FleetTicks == TickSteps \cup {HEARTBEAT_WINDOW}

NextFleet ==
  \/ \E w \in Workers : Heartbeat(w) \/ StopStep(w) \/ Crash(w)
  \/ \E c \in Clients : GetActiveWorkers(c)
  \/ \E d \in FleetTicks : Tick(d)

SpecFleet == Init /\ [][NextFleet]_vars

\* SpecLive: a worker that keeps polling and one that may crash at any
\* moment, a store that answers every operation, one job.  Workers are fast
\* against the clock: it advances, past every pending deadline, only when a
\* failed job is waiting for its next_retry_at or the lease of a crashed
\* worker for the staleness threshold.
CrashWorker == "w2"
LiveMaxRetries == {<<1>>, <<2>>}

WaitingOnClock ==
  \E j \in DOMAIN jobs :
    \/ /\ jobs[j].state = "failed"
       /\ jobs[j].next_retry_at # NullT /\ jobs[j].next_retry_at > now
    \/ /\ jobs[j].state = "processing"
       /\ jobs[j].locked_by \in Workers /\ pc[jobs[j].locked_by] = "crashed"
       /\ now - jobs[j].locked_at <= LOCK_TIMEOUT

LiveTick == WaitingOnClock /\ \E d \in SoloTicks : Tick(d)

NextLive ==
  \/ \E w \in Workers : WorkerStep(w)
  \/ Crash(CrashWorker)
  \/ \E c \in Clients, id \in RaceJobs, cmd \in RaceCommands, mr \in LiveMaxRetries :
       EnqueueJob(c, id, cmd, mr)
  \/ LiveTick

SpecLive ==
  /\ Init /\ [][NextLive]_vars
  /\ \A w \in Workers : WF_vars(WorkerStep(w))
  /\ WF_vars(LiveTick)

\* SpecStop: one worker whose store operations may fail and on which stop()
\* is called at any moment, over one job
NextStop ==
  \/ WorkerStep(SoloWorker)
  \/ StoreError(SoloWorker)
  \/ StopStep(SoloWorker)
  \/ Heartbeat(SoloWorker)
  \/ \E c \in Clients, id \in RaceJobs, cmd \in RaceCommands, mr \in MaxRetriesInputs :
       EnqueueJob(c, id, cmd, mr)
  \/ \E d \in TickSteps : Tick(d)

SpecStop == Init /\ [][NextStop]_vars

\* SpecStopFair: SpecStop in which every awaited operation of the worker and
\* of stop() returns (a store operation answers, the command ends or is
\* killed by its 60 s timeout, a sleep ends); store errors may or may not
\* occur, and the command is never refused a run by MaxRuns (RunsWithinBound)
SpecStopFair ==
  /\ SpecStop
  /\ WF_vars(WorkerStep(SoloWorker))
  /\ WF_vars(StopWrite(SoloWorker))
  /\ WF_vars(StopReturn(SoloWorker))
  /\ WF_vars(Cleanup(SoloWorker))

RunsWithinBound == \A w \in Workers : pc[w] = "execute" => runs[cur[w]] < MaxRuns

\* ==================================================================== claims
\* worker w has received job j from acquireJobLock and has not yet written
\* its outcome (markJobCompleted, or the update of markJobFailed)
Holds(w, j) ==
  /\ cur[w] = j
  /\ pc[w] \in {"execute", "mark_completed", "read_backoff", "failed_get", "failed_update"}

Holders(j) == {w \in Workers : Holds(w, j)}

\* C1 (SpecLease): as long as no stale-lock select has found a lease older
\* than the 5-minute threshold, no job is held by two workers at once.
C1_MutualExclusion ==
  staleFound \/ \A j \in JobIds : Cardinality(Holders(j)) <= 1

\* one worker holds the job while the other, having read it as a pending
\* candidate, is about to attempt its lock update
C1_Witness ==
  /\ ~staleFound
  /\ \E w \in Workers, v \in Workers, j \in JobIds :
       w # v /\ Holds(w, j) /\ pc[v] = "lock_pending" /\ cand[v] = j

\* C2 (SpecLease): a stale-lock select that finds a processing row whose
\* locked_at is more than 5 minutes old hands it to the calling worker, whose
\* lock update then returns it although locked_by named another worker; and
\* no step overwrites the locked_by of a processing row whose locked_at is
\* less than 5 minutes old at the instant of the write.
C2_StaleReclamation ==
  [][ /\ \A w \in Workers :
           (pc[w] = "lock_stale" /\ pc'[w] # "lock_stale")
             => (cur'[w] = cand[w] /\ jobs'[cand[w]].locked_by = w)
      /\ \A j \in DOMAIN jobs :
           ( /\ jobs[j].state = "processing"
             /\ jobs[j].locked_by # Null
             /\ jobs[j].locked_at # NullT
             /\ now - jobs[j].locked_at < LOCK_TIMEOUT )
             => jobs'[j].locked_by \in {jobs[j].locked_by, Null} ]_vars

\* b^k seconds for the bases and exponents the model reaches, written out
BackoffSeconds(b, k) ==
  CASE b = 2 /\ k = 1 -> 2
    [] b = 2 /\ k = 2 -> 4
    [] b = 3 /\ k = 1 -> 3
    [] b = 3 /\ k = 2 -> 9

\* C3 (SpecRetry): the update of markJobFailed, on a job with stored attempts
\* a, max_retries r and backoff base b, writes attempts = a + 1, the failure
\* text and a cleared lease, and state dead with next_retry_at null if
\* a + 1 >= r, else state failed with next_retry_at = now + b^(a+1) seconds.
C3_FailureTransition ==
  [][ \A w \in Workers :
        (pc[w] = "failed_update" /\ pc'[w] # "failed_update") =>
          LET j == cur[w]
              a == jobs[j].attempts
              r == jobs[j].max_retries
              row == jobs'[j]
          IN /\ row.attempts = a + 1
             /\ row.error_message = ErrMsg
             /\ row.locked_by = Null /\ row.locked_at = NullT
             /\ IF a + 1 >= r
                  THEN row.state = "dead" /\ row.next_retry_at = NullT
                  ELSE /\ row.state = "failed"
                       /\ row.next_retry_at = now + BackoffSeconds(base[w], a + 1) ]_vars

\* the second failure of a job with max_retries 3 has just been recorded
\* with backoff base 3
C3_Witness ==
  \E j \in DOMAIN jobs :
    /\ jobs[j].state = "failed" /\ jobs[j].attempts = 2
    /\ jobs[j].next_retry_at = now + 9
    /\ config["backoff_base"] = "3"

\* no worker is between receiving job j and the end of executeJob
Idle(j) == \A w \in Workers : cur[w] # j

\* C4 (SpecRetry): a job whose command always fails is run at most
\* max_retries = r times; between runs it is pending before the first, failed
\* with attempts = k after the k-th failure for k < r, and dead with
\* attempts = r after the r-th; once dead it stays dead (it is never leased).
C4_State ==
  \A j \in DOMAIN jobs :
    jobs[j].command = "fail" =>
      LET k == runs[j]
          r == jobs[j].max_retries
      IN /\ k <= r
         /\ Idle(j) =>
              \/ k = 0 /\ jobs[j].state = "pending" /\ jobs[j].attempts = 0
              \/ k >= 1 /\ k < r /\ jobs[j].state = "failed" /\ jobs[j].attempts = k
              \/ k = r /\ jobs[j].state = "dead" /\ jobs[j].attempts = r

C4_DeadStays ==
  \A j \in DOMAIN jobs :
    (jobs[j].command = "fail" /\ jobs[j].state = "dead") => jobs'[j] = jobs[j]

C4_RetryExhaustion == [](C4_State) /\ [][C4_DeadStays]_vars

\* a failing job with the default max_retries has reached the DLQ
C4_Witness ==
  \E j \in DOMAIN jobs :
    /\ jobs[j].command = "fail" /\ jobs[j].max_retries = 3
    /\ jobs[j].state = "dead" /\ jobs[j].attempts = 3 /\ runs[j] = 3

\* C5 (SpecRetry): from lease to the end of the success path attempts is not
\* written; when executeJob returns after a successful command the job is
\* completed with completed_at set, error_message null and the lease cleared;
\* a job with the default max_retries whose command succeeds is run once and
\* ends completed with attempts = 0.
C5_Path ==
  \A w \in Workers :
    /\ pc[w] \in {"execute", "mark_completed", "update_output"}
         => jobs'[cur[w]].attempts = jobs[cur[w]].attempts
    /\ (pc[w] = "update_output" /\ pc'[w] = "poll") =>
         LET row == jobs'[cur[w]] IN
           /\ row.state = "completed" /\ row.completed_at # NullT
           /\ row.error_message = Null
           /\ row.locked_by = Null /\ row.locked_at = NullT

C5_Once ==
  \A j \in DOMAIN jobs :
    (jobs[j].command = "ok" /\ jobs[j].max_retries = DEFAULT_MAX_RETRIES) =>
      /\ runs[j] <= 1 /\ jobs[j].attempts = 0
      /\ (runs[j] = 1 /\ Idle(j)) => jobs[j].state = "completed"

C5_SuccessOutcome == [](C5_Once) /\ [][C5_Path]_vars

\* a job that failed once has then succeeded: completed, error cleared,
\* attempts still 1
C5_Witness ==
  \E j \in DOMAIN jobs :
    /\ jobs[j].state = "completed" /\ jobs[j].attempts = 1
    /\ jobs[j].output = Output /\ jobs[j].error_message = Null /\ Idle(j)

\* every row but j's is the same before and after the step
OthersUnchanged(j) ==
  \A k \in DOMAIN jobs : k # j => (k \in DOMAIN jobs' /\ jobs'[k] = jobs[k])

\* C6 (SpecSolo): retryDLQJob on a dead job leaves it pending with
\* attempts = 0, error_message and next_retry_at null and no lease, and
\* leaves every other job as it was; on an absent or non-dead job it raises
\* an error and changes no field of any job.
C6_Step ==
  \A c \in Clients :
    /\ \A id \in JobIds :
         RetryDLQGet(c, id) =>
           /\ jobs' = jobs
           /\ IF id \in DOMAIN jobs /\ jobs[id].state = "dead"
                THEN cpc'[c] = "dlq_update" /\ cjob'[c] = id /\ cres'[c] # "error"
                ELSE cpc'[c] = "idle" /\ cres'[c] = "error"
    /\ (cpc[c] = "dlq_update" /\ cpc'[c] = "idle") =>
         LET row == jobs'[cjob[c]] IN
           /\ jobs[cjob[c]].state = "dead"
           /\ row.state = "pending" /\ row.attempts = 0
           /\ row.error_message = Null /\ row.next_retry_at = NullT
           /\ row.locked_by = Null /\ row.locked_at = NullT
           /\ row.max_retries = jobs[cjob[c]].max_retries
           /\ cres'[c] = "ok"
           /\ OthersUnchanged(cjob[c])

C6_DLQRoundTrip == [][C6_Step]_vars

\* a job that died after one failure is back in the queue through
\* retryDLQJob while the other job is still dead
C6_Witness ==
  \E j \in DOMAIN jobs, k \in DOMAIN jobs, c \in Clients :
    /\ j # k /\ jobs[k].state = "dead"
    /\ jobs[j].state = "pending" /\ jobs[j].attempts = 0 /\ runs[j] >= 1
    /\ cres[c] = "ok" /\ cpc[c] = "idle"

\* C7 (SpecLease): in every state, for every job, locked_by is non-null
\* if and only if state = processing.
C7_LeaseIffProcessing ==
  \A j \in DOMAIN jobs : (jobs[j].locked_by # Null) <=> (jobs[j].state = "processing")

\* C8 (SpecRetry): in every state, for every job, next_retry_at is non-null
\* if and only if state = failed.
C8_RetryAtIffFailed ==
  \A j \in DOMAIN jobs : (jobs[j].next_retry_at # NullT) <=> (jobs[j].state = "failed")

\* C9 (SpecLease): from one state to the next, a job's attempts never
\* decreases, except in the update of retryDLQJob, which sets it to 0.
C9_AttemptsMonotone ==
  [][ \A j \in DOMAIN jobs :
        \/ jobs'[j].attempts >= jobs[j].attempts
        \/ /\ jobs'[j].attempts = 0
           /\ \E c \in Clients :
                cpc[c] = "dlq_update" /\ cpc'[c] = "idle" /\ cjob[c] = j ]_vars

\* C10 (SpecSolo): enqueueJob with a new id adds exactly one row, pending,
\* attempts 0, no lease, max_retries = the supplied value or 3 when none is
\* supplied, and leaves the other rows unchanged; with an id already present
\* it raises an error and leaves the table unchanged.
C10_Enqueue ==
  [][ \A c \in Clients, id \in JobIds, cmd \in Commands, mr \in MaxRetriesInputs :
        EnqueueJob(c, id, cmd, mr) =>
          IF id \in DOMAIN jobs
            THEN jobs' = jobs /\ cres'[c] = "error"
            ELSE /\ DOMAIN jobs' = DOMAIN jobs \cup {id}
                 /\ OthersUnchanged(id)
                 /\ jobs'[id].state = "pending" /\ jobs'[id].attempts = 0
                 /\ jobs'[id].locked_by = Null /\ jobs'[id].locked_at = NullT
                 /\ jobs'[id].max_retries = (IF mr = <<>> THEN 3 ELSE mr[1])
                 /\ cres'[c] = "ok" ]_vars

UnleasedPending ==
  {j \in DOMAIN jobs : jobs[j].state = "pending" /\ jobs[j].locked_by = Null}
DueFailed(t) ==
  {j \in DOMAIN jobs : /\ jobs[j].state = "failed" /\ jobs[j].locked_by = Null
                       /\ jobs[j].next_retry_at # NullT /\ jobs[j].next_retry_at <= t}
StaleProcessing(t) ==
  {j \in DOMAIN jobs : /\ jobs[j].state = "processing" /\ jobs[j].locked_by # Null
                       /\ jobs[j].locked_at # NullT /\ t - jobs[j].locked_at > LOCK_TIMEOUT}

\* C12 (SpecQuiet): a call of acquireJobLock that runs without contention
\* returns an unleased pending job if there is one; else a failed job whose
\* next_retry_at has elapsed if there is one; else a stale processing job if
\* there is one; and it returns null exactly when the three classes are empty.
C12_SelectionPriority ==
  [][ \A w \in Workers :
        /\ (InAcquire(w) /\ pc'[w] = "execute") =>
              IF UnleasedPending # {} THEN cur'[w] \in UnleasedPending
              ELSE IF DueFailed(now) # {} THEN cur'[w] \in DueFailed(now)
              ELSE cur'[w] \in StaleProcessing(now)
        /\ (InAcquire(w) /\ pc'[w] = "poll") =>
              /\ UnleasedPending = {}
              /\ DueFailed(now) = {}
              /\ StaleProcessing(now) = {} ]_vars

\* a call has passed over a failed job that is not yet due and found a
\* stale lease to reclaim
C12_Witness ==
  \E w \in Workers, k \in DOMAIN jobs :
    /\ pc[w] = "lock_stale" /\ cand[w] # k
    /\ jobs[k].state = "failed" /\ jobs[k].next_retry_at > now

\* worker w is inside executeJob
Executing(w) ==
  pc[w] \in {"execute", "mark_completed", "update_output",
             "read_backoff", "failed_get", "failed_update"}

\* C13 (SpecStop): once stop() has been called on a worker, no call of
\* acquireJobLock by that worker returns a job; and once stop() has returned,
\* the worker has no current job and is not executing one.
C13_GracefulStop ==
  /\ [][ \A w \in Workers :
           spc[w] # "none" => ~(InAcquire(w) /\ pc'[w] = "execute") ]_vars
  /\ [](\A w \in Workers :
           spc[w] = "returned" => (cur[w] = NoJob /\ ~Executing(w)))

\* C14 (SpecStop): the status of a worker's row changes only from active to
\* stopping and from stopping to stopped; and once stop() has returned the
\* row has status = stopped and jobs_processed = the worker's counter, and the
\* heartbeat timer is cleared.
C14_StatusLifecycle ==
  /\ [][ \A w \in Workers :
           \/ wrec'[w].status = wrec[w].status
           \/ wrec[w].status = "active" /\ wrec'[w].status = "stopping"
           \/ wrec[w].status = "stopping" /\ wrec'[w].status = "stopped" ]_vars
  /\ [](\A w \in Workers :
           spc[w] = "returned" =>
             /\ wrec[w].status = "stopped"
             /\ wrec[w].jobs_processed = jobsProcessed[w]
             /\ ~hbTimer[w])

\* C15 (SpecStopFair): every call of stop() returns.
C15_StopTerminates ==
  \A w \in Workers : (spc[w] = "write_stopping") ~> (spc[w] = "returned")

\* C16 (SpecStop): a store error raised while the worker polls or records an
\* outcome sends processLoop back to its idle sleep and loop test; the loop
\* ends only at that test, and only when stop() has cleared isRunning.
C16_LoopSurvivesErrors ==
  [][ \A w \in Workers :
        /\ (SelectError(w) \/ MarkJobFailedError(w)) => pc'[w] = "poll"
        /\ (pc[w] # "stopped" /\ pc'[w] = "stopped")
             => (pc[w] = "poll" /\ ~isRunning[w] /\ spc[w] # "none") ]_vars

\* a worker whose markJobFailed threw is still running: it has polled again
\* and found the lease it left behind, now stale
C16_Witness ==
  \E w \in Workers :
    /\ isRunning[w] /\ pc[w] = "lock_stale"
    /\ cur[w] = cand[w] /\ jobs[cand[w]].locked_by = w

\* job j has reached one of its two final states
Resolved(j) == j \in DOMAIN jobs /\ jobs[j].state \in {"completed", "dead"}

\* C17 (SpecLive): every enqueued job eventually reaches state completed or
\* dead, also when the worker that leased it crashed while executing it and
\* when it is waiting in state failed.
C17_EventualResolution ==
  \A j \in JobIds : [](j \notin DOMAIN jobs) \/ <>Resolved(j)

\* a job that failed once and was then leased by the worker that crashed has
\* been reclaimed and has ended in the DLQ
C17_Witness ==
  \E j \in DOMAIN jobs :
    /\ pc[CrashWorker] = "crashed" /\ cur[CrashWorker] = j
    /\ staleFound /\ runs[j] = 3
    /\ jobs[j].state = "dead" /\ jobs[j].attempts = 2

\* worker w performs one of its outcome writes: the update of
\* markJobCompleted, the follow-up output update, or the update of
\* markJobFailed
OutcomeWrite(w) ==
  /\ pc[w] \in {"mark_completed", "update_output", "failed_update"}
  /\ pc'[w] # pc[w]

\* the fields of job j that the lease protects are the same after the step
LeaseFieldsUnchanged(j) ==
  /\ jobs'[j].state = jobs[j].state
  /\ jobs'[j].attempts = jobs[j].attempts
  /\ jobs'[j].locked_by = jobs[j].locked_by
  /\ jobs'[j].locked_at = jobs[j].locked_at

\* C18 (SpecLease): an outcome write of worker w on a job whose locked_by
\* names another worker at the instant of the write leaves the job's state,
\* attempts and lease fields as they were.
C18_LeaseConditioned ==
  [][ \A w \in Workers :
        (OutcomeWrite(w) /\ jobs[cur[w]].locked_by \notin {w, Null})
          => LeaseFieldsUnchanged(cur[w]) ]_vars

\* the update of retryDLQJob lands on job j in this step
DlqRetryLands(j) ==
  \E c \in Clients : cpc[c] = "dlq_update" /\ cpc'[c] = "idle" /\ cjob[c] = j

\* C19 (SpecLease): once a job is dead, no step other than the update of
\* retryDLQJob changes its state, attempts or lease fields.
C19_DeadIsTerminal ==
  [][ \A j \in DOMAIN jobs :
        jobs[j].state = "dead" => (LeaseFieldsUnchanged(j) \/ DlqRetryLands(j)) ]_vars

\* C20 (Spec): the update of retryDLQJob never lands on a job whose state is
\* processing.
C20_DlqRetrySparesLease ==
  [][ \A j \in DOMAIN jobs :
        DlqRetryLands(j) => jobs[j].state # "processing" ]_vars

\* C25 (SpecLease): no step moves a failed job to processing before its
\* stored next_retry_at has elapsed.
C25_NoEarlyRetry ==
  [][ \A j \in DOMAIN jobs :
        (jobs[j].state = "failed" /\ jobs'[j].state = "processing")
          => (jobs[j].next_retry_at # NullT /\ jobs[j].next_retry_at <= now) ]_vars

\* C27 (SpecLease): the stale-lock update changes the row only if it is
\* still a processing row whose lease is past the threshold, as the select
\* saw it; so a job that was completed, failed or leased again since the
\* select is left as it is, and of two workers that selected the same stale
\* job at most one is returned it.
C27_StaleReclaimIsCAS ==
  [][ \A w \in Workers :
        (pc[w] = "lock_stale" /\ pc'[w] # "lock_stale") =>
          LET j == cand[w] IN
            \/ /\ jobs[j].state = "processing"
               /\ jobs[j].locked_by # Null
               /\ now - jobs[j].locked_at > LOCK_TIMEOUT
            \/ jobs'[j] = jobs[j] /\ pc'[w] # "execute" ]_vars

C26_WithinClassOrder ==
  [][ \A w \in Workers :
        LET j == cur'[w] IN
        /\ (pc[w] = "lock_pending" /\ pc'[w] = "execute") =>
              /\ j \in UnleasedPending
              /\ \A k \in UnleasedPending : jobs[j].created_at <= jobs[k].created_at
        /\ (pc[w] = "lock_retry" /\ pc'[w] = "execute") =>
              /\ j \in DueFailed(now)
              /\ \A k \in DueFailed(now) :
                   jobs[j].next_retry_at <= jobs[k].next_retry_at ]_vars

\* a worker has leased the older of two pending jobs after the younger one
\* was enqueued
C26_Witness ==
  \E w \in Workers, j \in DOMAIN jobs, k \in DOMAIN jobs :
    /\ pc[w] = "execute" /\ cur[w] = j /\ jobs[j].locked_by = w
    /\ jobs[k].state = "pending"
    /\ jobs[j].created_at < jobs[k].created_at
    /\ jobs[k].created_at <= jobs[j].locked_at

\* the store operations of one call of acquireJobLock, in program order
AcquireRank(p) ==
  CASE p = "poll" -> 0
    [] p = "lock_pending" -> 1
    [] p = "select_retry" -> 2
    [] p = "lock_retry" -> 3
    [] p = "select_stale" -> 4
    [] p = "lock_stale" -> 5

\* C29 (SpecContend): a lock update of the pending or the retry class that
\* finds the row leased changes nothing and the call goes on to the next
\* class; a select that fails ends the call at once, with no further store
\* operation; each store operation of a call comes later in program order
\* than the one before (at most three selects and three updates), and the
\* call ends with the first update that leases a job.
C29_FallThrough ==
  [][ \A w \in Workers :
        /\ ( /\ pc[w] \in {"lock_pending", "lock_retry"} /\ pc'[w] # pc[w]
             /\ jobs[cand[w]].locked_by # Null )
             => /\ jobs' = jobs
                /\ pc'[w] = (IF pc[w] = "lock_pending" THEN "select_retry"
                                                       ELSE "select_stale")
        /\ SelectError(w) => (pc'[w] = "poll" /\ jobs' = jobs)
        /\ ((pc[w] = "poll" \/ InAcquire(w)) /\ pc'[w] # pc[w]) =>
              \/ pc'[w] = "poll" /\ jobs' = jobs
              \/ /\ pc'[w] = "execute" /\ InAcquire(w)
                 /\ jobs'[cur'[w]].locked_by = w
                 /\ OthersUnchanged(cur'[w])
              \/ /\ InAcquire(w) \/ isRunning[w]
                 /\ pc'[w] \notin {"poll", "execute"}
                 /\ AcquireRank(pc'[w]) > AcquireRank(pc[w])
                 /\ jobs' = jobs ]_vars

\* a worker is about to send the pending-class lock update for a row that
\* another worker has leased in the meantime
C29_Witness ==
  \E w \in Workers :
    /\ pc[w] = "lock_pending"
    /\ jobs[cand[w]].state = "processing"
    /\ jobs[cand[w]].locked_by \notin {w, Null}

\* C28 (SpecStale): the job the stale-lock update reclaims has the oldest
\* locked_at of the processing jobs whose lease is stale for that call.
C28_OldestStaleFirst ==
  [][ \A w \in Workers :
        (pc[w] = "lock_stale" /\ pc'[w] = "execute") =>
          \A k \in StaleProcessing(wnow[w]) :
            jobs[cur'[w]].locked_at <= jobs[k].locked_at ]_vars

\* the number stored under backoff_base, 2 when the key is absent
ConfigBackoffBase ==
  IF "backoff_base" \notin DOMAIN config THEN 2
  ELSE CASE config["backoff_base"] = "2" -> 2
         [] config["backoff_base"] = "3" -> 3
         [] config["backoff_base"] = "5" -> 5

\* C21 (SpecRetry): the base a worker uses for a failure is the value of
\* backoff_base it finds in config after the command has failed, and the
\* next_retry_at it stores is computed from that base; a change of config
\* changes no job row.
C21_BackoffBaseFresh ==
  [][ /\ \A w \in Workers :
           /\ (pc[w] = "read_backoff" /\ pc'[w] = "failed_get")
                => base'[w] = ConfigBackoffBase
           /\ (pc[w] = "failed_get" /\ pc'[w] = "failed_update")
                => base'[w] = base[w]
           /\ (pc[w] = "failed_update" /\ pc'[w] = "poll"
                 /\ jobs'[cur[w]].state = "failed")
                => jobs'[cur[w]].next_retry_at
                     = now + BackoffSeconds(base[w], jobs'[cur[w]].attempts)
      /\ config' # config => jobs' = jobs ]_vars

\* backoff_base, 2 at the start, has been set to 3 and a first failure has
\* been recorded since: the retry is scheduled 3 seconds later
C21_Witness ==
  \E j \in DOMAIN jobs :
    /\ jobs[j].state = "failed" /\ jobs[j].attempts = 1
    /\ jobs[j].next_retry_at = now + 3
    /\ jobs[j].created_at = now
    /\ config["backoff_base"] = "3"

\* the threshold the key max_retries of config stands for
ConfigMaxRetriesValue ==
  CASE config["max_retries"] = "2" -> 2
    [] config["max_retries"] = "3" -> 3
    [] config["max_retries"] = "5" -> 5

\* C22 (SpecConfig): when a failure of a job enqueued without max_retries
\* is recorded, the job is moved to dead exactly when its attempts have
\* reached the value of max_retries in config at that moment.
C22_ConfigMaxRetriesDecides ==
  [][ \A w \in Workers :
        (pc[w] = "failed_update" /\ pc'[w] = "poll")
          => (jobs'[cur[w]].state = "dead"
                <=> jobs'[cur[w]].attempts >= ConfigMaxRetriesValue) ]_vars

\* C24 (SpecConfig): set(k, v) leaves v under k, adds no other key and
\* changes no other key; get(k) returns the stored value, null when the key
\* has no row, and changes nothing; nothing but a set changes config, so
\* the value read back is the one of the last set of that key.
C24_ConfigRoundTrip ==
  [][ /\ \A c \in Clients, k \in ConfigKeys, v \in ConfigValues :
           ConfigSet(c, k, v)
             => /\ DOMAIN config' = DOMAIN config \cup {k}
                /\ config'[k] = v
                /\ \A x \in DOMAIN config \ {k} : config'[x] = config[x]
      /\ \A c \in Clients, k \in ConfigKeys :
           ConfigGet(c, k)
             => /\ cfgGot'[c] = IF k \in DOMAIN config THEN config[k] ELSE Null
                /\ config' = config
      /\ config' # config
           => \E c \in Clients, k \in ConfigKeys, v \in ConfigValues :
                ConfigSet(c, k, v) ]_vars

\* max_retries, "3" at the start, has been overwritten with "2" and read
\* back, while the other key has been inserted and backoff_base kept
C24_Witness ==
  /\ config["max_retries"] = "2"
  /\ \E c \in Clients : cfgGot[c] = "2"
  /\ OtherKey \in DOMAIN config
  /\ config["backoff_base"] = "2"

\* C23 (SpecFleet): getActiveWorkers returns the workers whose record has
\* status active or stopping and a last_heartbeat at most 5 minutes old,
\* and no others, and it changes no record.
C23_ActiveWorkersListed ==
  [][ \A c \in Clients :
        GetActiveWorkers(c)
          => /\ \A w \in Workers :
                  w \in listed'[c]
                    <=> /\ wrec[w].status # "stopped"
                        /\ now - wrec[w].last_heartbeat <= 300
             /\ wrec' = wrec /\ jobs' = jobs /\ config' = config ]_vars

\* a stopping worker is listed; a crashed one, its record still active
\* but its heartbeat too old, and then a stopped one, are not
C23_Witness ==
  \E c \in Clients, w, x \in Workers :
    /\ w \in listed[c] /\ x \notin listed[c]
    /\ wrec[w].status = "stopping"
    /\ now - wrec[w].last_heartbeat <= 300
    /\ wrec[x].status = "active" /\ pc[x] = "crashed"
    /\ now - wrec[x].last_heartbeat > 300

\* C31 (SpecSolo): releaseJobLock(id) sets locked_by and locked_at of job
\* id to null and changes no other field of it and no other job.
C31_ReleaseFrame ==
  [][ \A c \in Clients, id \in JobIds :
        ReleaseJobLock(c, id)
          => /\ DOMAIN jobs' = DOMAIN jobs
             /\ \A j \in DOMAIN jobs :
                  IF j = id
                    THEN /\ jobs'[j].locked_by = Null
                         /\ jobs'[j].locked_at = NullT
                         /\ jobs'[j].state = jobs[j].state
                         /\ jobs'[j].attempts = jobs[j].attempts
                         /\ jobs'[j].next_retry_at = jobs[j].next_retry_at
                         /\ jobs'[j].error_message = jobs[j].error_message
                         /\ jobs'[j].completed_at = jobs[j].completed_at
                         /\ jobs'[j].max_retries = jobs[j].max_retries
                         /\ jobs'[j].command = jobs[j].command
                         /\ jobs'[j].output = jobs[j].output
                    ELSE jobs'[j] = jobs[j] ]_vars

\* the lease of a job has been released while its holder executes it: the
\* job is still processing, with one failed attempt on record, and the other
\* job is still waiting for its retry
C31_Witness ==
  \E w \in Workers, j, k \in DOMAIN jobs :
    /\ j # k
    /\ cur[w] = j /\ pc[w] = "execute"
    /\ jobs[j].state = "processing" /\ jobs[j].attempts = 1
    /\ jobs[j].locked_by = Null /\ jobs[j].locked_at = NullT
    /\ jobs[k].state = "failed" /\ jobs[k].next_retry_at # NullT
    /\ \E c \in Clients : cres[c] = "ok"

\* the jobs the store holds as successfully completed
CompletedJobs == {j \in DOMAIN jobs : jobs[j].state = "completed"}

\* C32 (SpecStop): whenever the only worker is between two jobs, or has
\* stopped, its jobsProcessed counter is the number of jobs it has recorded
\* as completed.
C32_CounterCountsCompletions ==
  pc[SoloWorker] \in {"poll", "stopped"}
    => jobsProcessed[SoloWorker] = Cardinality(CompletedJobs)

\* C33 (SpecLease): a job whose state is completed keeps that state in every
\* step.
C33_CompletedIsTerminal ==
  [][ \A j \in DOMAIN jobs :
        jobs[j].state = "completed" => jobs'[j].state = "completed" ]_vars

\* C34 (Spec): in every state, for every job, locked_by is null if and only
\* if locked_at is null.
C34_LeaseFieldsTogether ==
  \A j \in DOMAIN jobs : (jobs[j].locked_by = Null) <=> (jobs[j].locked_at = NullT)

\* a job whose lease fields were written by a lock update and cleared by
\* markJobFailed is leased again, at a later time
C34_Witness ==
  \E j \in DOMAIN jobs :
    /\ jobs[j].locked_by \in Workers /\ jobs[j].locked_at > 0
    /\ jobs[j].state = "processing" /\ jobs[j].attempts >= 1

\* C35 (SpecLease): in every state, for every job, attempts is at most
\* max_retries; a dead job has attempts >= max_retries and a failed job has
\* 1 <= attempts < max_retries.  Every stored max_retries is at least 1.
C35_AttemptsWithinMaxRetries ==
  \A j \in DOMAIN jobs :
    /\ jobs[j].max_retries >= 1
    /\ jobs[j].attempts <= jobs[j].max_retries
    /\ jobs[j].state = "dead" => jobs[j].attempts >= jobs[j].max_retries
    /\ jobs[j].state = "failed"
         => (1 <= jobs[j].attempts /\ jobs[j].attempts < jobs[j].max_retries)

\* C36 (SpecStop): a step that increments a job's attempts, or moves the
\* job to failed or dead, is taken by a worker that is executing the job
\* and whose command failed or timed out.
C36_FailureOnlyOnCommandFailure ==
  [][ \A j \in DOMAIN jobs :
        (\/ jobs'[j].attempts > jobs[j].attempts
         \/ /\ jobs'[j].state \in {"failed", "dead"}
            /\ jobs'[j].state # jobs[j].state)
          => \E w \in Workers : cur[w] = j /\ execFailed[w] ]_vars

====
